---- MODULE Spec2Model ----
(***************************************************************************)
(* svg-power-opt: the plugin-list composer and optimisation entry points   *)
(* of src/lib/index.js and the batch command of src/bin/cli.js.            *)
(*                                                                         *)
(* Two specifications share the module:                                    *)
(*   SpecLib  calls of optimizeSVG / validateSVG with every option         *)
(*            combination and a bounded caller-supplied plugin list;       *)
(*   Spec     one run of the batch command: pre-flight, the pool of        *)
(*            worker loops of runConcurrent and processFile, one step per  *)
(*            await point.                                                 *)
(* The SVGO engine, the file system and the raster encoder are external:   *)
(* every call into them is a nondeterministic choice over its outcomes     *)
(* (a returned value or a thrown error).                                   *)
(***************************************************************************)
EXTENDS Integers, Sequences, FiniteSets, TLC

(***************************************************************************)
(* Bounds                                                                  *)
(***************************************************************************)
MaxPlugins == 2   \* length of the caller-supplied plugin list
MaxFiles == 3     \* length of the resolved file list
MaxWorkers == 2   \* largest --concurrency value
MaxCalls == 2     \* optimizeSVG calls made in one process

(***************************************************************************)
(* JavaScript values of the catalog: a bare identifier or an object.       *)
(***************************************************************************)
Str(s) == [type |-> "string", str |-> s]
Obj(o) == [type |-> "object", obj |-> o]

safePlugins ==
  << Str("cleanupAttrs"), Str("removeDoctype"), Str("removeXMLProcInst"),
     Str("removeComments"), Str("removeMetadata"), Str("removeTitle"),
     Str("removeDesc"), Str("removeUselessDefs"), Str("removeEditorsNSData"),
     Str("removeEmptyAttrs"), Str("removeHiddenElems"), Str("removeEmptyText"),
     Str("removeEmptyContainers"), Str("cleanupEnableBackground"),
     Str("convertStyleToAttrs"), Str("convertColors"), Str("convertPathData"),
     Str("convertTransform"), Str("removeUnknownsAndDefaults"),
     Str("removeNonInheritableGroupAttrs"), Str("removeUselessStrokeAndFill"),
     Str("mergePaths"), Str("removeDimensions") >>

aggressivePlugins ==
  << Str("sortAttrs"),
     Obj([name |-> "removeAttrs", params |-> [attrs |-> "(class|data-name)"]]) >>

(***************************************************************************)
(* getPluginConfig: [...all.map(p => typeof p === "string" ? {name: p} : p),*)
(*                   ...customPlugins]                                     *)
(***************************************************************************)
toDescriptor(p) == IF p.type = "string" THEN [name |-> p.str] ELSE p.obj

getPluginConfigCustomFirst(aggressive, customPlugins) ==
  LET all == IF aggressive THEN safePlugins \o aggressivePlugins ELSE safePlugins
  IN  customPlugins \o [i \in 1..Len(all) |-> toDescriptor(all[i])]

getPluginConfigAlwaysAggressive(aggressive, customPlugins) ==
  LET all == safePlugins \o aggressivePlugins
  IN  [i \in 1..Len(all) |-> toDescriptor(all[i])] \o customPlugins

getPluginConfig(aggressive, customPlugins) ==
  LET all == IF aggressive THEN safePlugins \o aggressivePlugins ELSE safePlugins
  IN  [i \in 1..Len(all) |-> toDescriptor(all[i])] \o customPlugins

(***************************************************************************)
(* Array.prototype.findIndex with the predicate p.name === name.           *)
(* Positions are 1-based here; 0 stands for JavaScript's -1.               *)
(***************************************************************************)
findLastIndexByName(list, name) ==
  LET hits == {i \in 1..Len(list) : list[i].name = name}
  IN  IF hits = {} THEN 0 ELSE CHOOSE i \in hits : \A j \in hits : j <= i

findIndexByName(list, name) ==
  LET hits == {i \in 1..Len(list) : list[i].name = name}
  IN  IF hits = {} THEN 0 ELSE CHOOSE i \in hits : \A j \in hits : i <= j

\* Array.prototype.splice(idx, 1)
splice1(list, idx) == SubSeq(list, 1, idx - 1) \o SubSeq(list, idx + 1, Len(list))

\* if (!removeDimensions) { idx = findIndex(...); if (idx !== -1) splice(idx, 1) }
dropRemoveDimensionsLast(list, removeDimensions) ==
  IF ~removeDimensions
  THEN LET idx == findLastIndexByName(list, "removeDimensions")
       IN  IF idx # 0 THEN splice1(list, idx) ELSE list
  ELSE list

dropRemoveDimensions(list, removeDimensions) ==
  IF ~removeDimensions
  THEN LET idx == findIndexByName(list, "removeDimensions")
       IN  IF idx # 0 THEN splice1(list, idx) ELSE list
  ELSE list

\* if (preserveViewBox) pluginConfig.push({name: "removeViewBox", active: false})
viewBoxOff == [name |-> "removeViewBox", active |-> FALSE]

pushViewBoxOffUnlessPresent(list, preserveViewBox) ==
  IF preserveViewBox /\ findIndexByName(list, "removeViewBox") = 0
  THEN Append(list, viewBoxOff)
  ELSE list

pushViewBoxOff(list, preserveViewBox) ==
  IF preserveViewBox THEN Append(list, viewBoxOff) ELSE list

(***************************************************************************)
(* Options of optimizeSVG: a record that may lack any of its keys; the     *)
(* destructuring defaults of the function apply to the missing ones.       *)
(***************************************************************************)
Opt(options, key, default) ==
  IF key \in DOMAIN options THEN options[key] ELSE default

optAggressive(options) == Opt(options, "aggressive", FALSE)
optMultipass(options) == Opt(options, "multipass", TRUE)
optPlugins(options) == Opt(options, "plugins", <<>>)
optPreserveViewBox(options) == Opt(options, "preserveViewBox", TRUE)
optRemoveDimensions(options) == Opt(options, "removeDimensions", TRUE)

\* the list handed to the engine by optimizeSVG
finalPluginConfig(options) ==
  pushViewBoxOff(
    dropRemoveDimensions(
      getPluginConfig(optAggressive(options), optPlugins(options)),
      optRemoveDimensions(options)),
    optPreserveViewBox(options))

(***************************************************************************)
(* Inputs of the library calls.                                            *)
(***************************************************************************)
Markups == {"<svg><!--c--><rect/></svg>", "<svg><rect/></svg>", "<svg><rect"}

CallerDescriptors ==
  { [name |-> "removeComments", active |-> FALSE],
    [name |-> "removeDimensions"],
    [name |-> "removeViewBox", active |-> TRUE],
    [name |-> "sortAttrs"],
    [name |-> "removeAttrs", params |-> [attrs |-> "id"]],
    [name |-> "noSuchPlugin"] }

CallerPluginLists ==
  UNION {[1..n -> CallerDescriptors] : n \in 0..MaxPlugins}

BoolOption(key) == {<<>>} \cup {key :> b : b \in BOOLEAN}

OptionRecords ==
  { a @@ m @@ p @@ v @@ d :
      a \in BoolOption("aggressive"),
      m \in BoolOption("multipass"),
      p \in {<<>>} \cup {"plugins" :> l : l \in CallerPluginLists},
      v \in BoolOption("preserveViewBox"),
      d \in BoolOption("removeDimensions") }

(***************************************************************************)
(* The external engine: optimize(svgContent, config) returns a result      *)
(* object or throws.                                                       *)
(***************************************************************************)
CauseMessages == {"Unclosed root tag", "Unknown builtin plugin"}

EngineOutcomes ==
  {[kind |-> "return", result |-> [data |-> d]] : d \in Markups}
    \cup {[kind |-> "throw", message |-> m] : m \in CauseMessages}

\* try { return optimize(...) } catch (e) { throw new Error(`SVGO optimization failed: ${e.message}`) }
optimizeSVGOutcomeSwallow(eo, svgContent) ==
  IF eo.kind = "return"
  THEN [kind |-> "return", value |-> eo.result]
  ELSE [kind |-> "return", value |-> [data |-> svgContent]]

optimizeSVGOutcome(eo, svgContent) ==
  IF eo.kind = "return"
  THEN [kind |-> "return", value |-> eo.result]
  ELSE [kind |-> "throw", message |-> "SVGO optimization failed: " \o eo.message]

\* try { optimize(...); return true } catch { return false }
validateSVGOutcomeRethrow(eo) ==
  IF eo.kind = "return"
  THEN [kind |-> "return", value |-> TRUE]
  ELSE [kind |-> "throw", message |-> eo.message]

validateSVGOutcome(eo) ==
  IF eo.kind = "return"
  THEN [kind |-> "return", value |-> TRUE]
  ELSE [kind |-> "return", value |-> FALSE]

(***************************************************************************)
(* Inputs of the batch command.                                            *)
(***************************************************************************)
\* absolute paths as fast-glob returns them: directory, stem and extension
Paths ==
  { [dir |-> "a", stem |-> "x", ext |-> "svg"],
    [dir |-> "b", stem |-> "x", ext |-> "svg"],
    [dir |-> "a", stem |-> "y", ext |-> "svgz"],
    [dir |-> "b", stem |-> "z", ext |-> "svg"] }

\* fast-glob returns each matching path once
FileLists ==
  UNION {{l \in [1..n -> Paths] : \A i, j \in 1..n : l[i] = l[j] => i = j} :
           n \in 0..MaxFiles}

\* --concurrency <number> goes through parseInt: an integer or NaN
ConcurrencyValues ==
  {[isNaN |-> TRUE]} \cup {[isNaN |-> FALSE, n |-> k] : k \in -1..MaxWorkers}

CliOptions ==
  [out : {"optimized"}, dryRun : BOOLEAN, exportPng : BOOLEAN,
   concurrency : ConcurrencyValues]

\* const concurrency = options.concurrency > 0 ? options.concurrency : 1
effectiveConcurrencyAllowsZero(options) ==
  IF ~options.concurrency.isNaN /\ options.concurrency.n >= 0
  THEN options.concurrency.n
  ELSE 1

effectiveConcurrency(options) ==
  IF ~options.concurrency.isNaN /\ options.concurrency.n > 0
  THEN options.concurrency.n
  ELSE 1

\* if (!options.dryRun) await fs.ensureDir(options.out)
ensuresOutDir(options) == ~options.dryRun

\* if (!options.dryRun) { await fs.writeFile(outPath, optimizedSVG); ... }
writesOutputAlways(options) == TRUE

writesOutput(options) == ~options.dryRun

\* if (options.exportPng) { ... await exportPNGThumbnail(optimizedSVG, pngPath) }
exportsPng(options) == options.exportPng

\* path.join(options.out, path.basename(file))
outPathOf(options, file) == [dir |-> options.out, stem |-> file.stem, ext |-> file.ext]

\* outPath.replace(/\.(svg|svgz)$/i, ".png")
pngPathOf(outPath) ==
  IF outPath.ext \in {"svg", "svgz", "SVG", "SVGZ"}
  THEN [outPath EXCEPT !.ext = "png"]
  ELSE outPath

\* while (index < files.length)
loopContinuesInclusive(idx, len) == idx <= len

loopContinues(idx, len) == idx < len

\* const file = files[index++]: the element read and the new value of index
claimIndexNoAdvance(idx) == [file |-> idx, next |-> idx]

claimIndex(idx) == [file |-> idx, next |-> idx + 1]

\* the catch block of processFile: the error becomes the returned outcome
processFileCatchRethrow(step) == [rejects |-> TRUE, outcome |-> [state |-> "failure", step |-> step]]

processFileCatch(step) == [rejects |-> FALSE, outcome |-> [state |-> "failure", step |-> step]]

\* the catch block of processFile only logs and returns: what writeFile put
\* on disk before exportPNGThumbnail threw stays there
diskAfterExportFailureRollback(d, outPath) == {e \in d : e.path # outPath}

diskAfterExportFailure(d, outPath) == d

\* the callback returns without touching process.exitCode: the status is 0
\* whatever the outcomes are
exitCodeAtEnd(fileOutcomes) == 0

(***************************************************************************)
(* State                                                                   *)
(***************************************************************************)
VARIABLES
  libCall,       \* the library call made last: function, content, options
  composed,      \* what getPluginConfig returned in that call
  pluginConfig,  \* the plugin list handed to the engine in that call
  engineCall,    \* the engine call of that call: config and outcome
  libOutcome,    \* what the library function returned or threw
  options,       \* the parsed command-line options
  mainPc,        \* position of the action callback
  files,         \* the resolved file list
  index,         \* let index = 0: next position of the file list (0-based)
  wpc,           \* position of each worker loop
  wfile,         \* position in files of the file each worker is processing
  claimed,       \* the positions passed to processFile, in call order
  outcomes,      \* what processFile returned for each position of files
  outDirExists,  \* whether the output directory has been created
  disk,          \* the artifacts written: path and the position they come from
  exitCode,      \* exit status of the process; -1 while it has not exited
  pf,            \* one processFile call: its options, sizes, position, output
  mod            \* the module-level lists and a caller's array across calls

libVars == <<libCall, composed, pluginConfig, engineCall, libOutcome>>

cliVars == <<options, mainPc, files, index, wpc, wfile, claimed, outcomes,
             outDirExists, disk, exitCode>>

fileVars == <<pf>>

callVars == <<mod>>

vars == <<libVars, cliVars, fileVars, callVars>>

Workers == 1..MaxWorkers

CliIdle ==
  /\ options = [out |-> "optimized", dryRun |-> FALSE, exportPng |-> FALSE,
                concurrency |-> [isNaN |-> FALSE, n |-> 1]]
  /\ mainPc = "idle"
  /\ files = <<>>
  /\ index = 0
  /\ wpc = [w \in Workers |-> "absent"]
  /\ wfile = [w \in Workers |-> -1]
  /\ claimed = <<>>
  /\ outcomes = <<>>
  /\ outDirExists = FALSE
  /\ disk = {}
  /\ exitCode = -1

FileIdle ==
  pf = [pc |-> "idle", options |-> [out |-> "optimized", aggressive |-> FALSE,
                                    dryRun |-> FALSE, exportPng |-> FALSE],
        originalSize |-> 0, optimizedSize |-> 0, percentReduced |-> <<>>,
        wrote |-> FALSE, logged |-> FALSE, warned |-> FALSE, outcome |-> "pending",
        run |-> 0, fs |-> {}, error |-> "none"]

CallsIdle == mod = [count |-> 0, last |-> <<>>]

LibIdle ==
  /\ libCall = [fn |-> "none"]
  /\ composed = <<>>
  /\ pluginConfig = <<>>
  /\ engineCall = [kind |-> "none"]
  /\ libOutcome = [kind |-> "none"]

\* a request not yet served: the function called and its arguments
LibRequests ==
  {[fn |-> "optimizeSVG", svgContent |-> c, options |-> o] :
      c \in Markups, o \in OptionRecords}
    \cup {[fn |-> "validateSVG", svgContent |-> c] : c \in Markups}

\* the entry points that read their markup from a file, a buffer, a URL or a
\* stream; each is called with no options or with {aggressive: true}
FromFunctions ==
  {"optimizeSVGFromFile", "optimizeSVGFromBuffer", "optimizeSVGFromURL",
   "optimizeSVGStream"}

FromOptions == {<<>>, "aggressive" :> TRUE}

FromRequests ==
  {[fn |-> "optimizeSVGFromFile", source |-> f, svgContent |-> c, options |-> o] :
      f \in {"logo.svg", "logo.svgz"}, c \in Markups, o \in FromOptions}
    \cup {[fn |-> fn, source |-> src, svgContent |-> c, options |-> o] :
             fn \in {"optimizeSVGFromBuffer", "optimizeSVGStream"},
             src \in {"bytes"}, c \in Markups, o \in FromOptions}
    \cup {[fn |-> "optimizeSVGFromURL", source |-> "https://example.com/image.svg",
            svgContent |-> c, options |-> o] : c \in Markups, o \in FromOptions}

\* what can happen before the markup reaches optimizeSVG
SourceOutcomes(request) ==
  CASE request.fn = "optimizeSVGFromFile" ->
         {"ok", "readFile throws"}
           \cup (IF request.source = "logo.svgz" THEN {"gunzipSync throws"} ELSE {})
    [] request.fn = "optimizeSVGFromBuffer" -> {"ok"}
    [] request.fn = "optimizeSVGFromURL" ->
         {"ok", "fetch throws", "response not ok", "res.buffer throws"}
    [] request.fn = "optimizeSVGStream" -> {"ok", "stream throws"}

\* if (!res.ok) throw new Error(`Failed to fetch SVG from URL: ${url}`);
\* every other failure propagates the error of the call that threw
sourceError(request, so) ==
  IF so = "response not ok"
  THEN [kind |-> "throw", message |-> "Failed to fetch SVG from URL: " \o request.source]
  ELSE [kind |-> "throw", message |-> so]

\* const result = optimizeSVG(content, options); return result.data;
\* the returned value is the markup string, not the result object
returnOfFrom(outcome) ==
  IF outcome.kind = "return"
  THEN [kind |-> "return", value |-> Str(outcome.value.data)]
  ELSE outcome

\* the JavaScript expression value.data: a property of an object that has
\* it, undefined on a string
readData(value) ==
  IF "data" \in DOMAIN value
  THEN [defined |-> TRUE, value |-> value.data]
  ELSE [defined |-> FALSE]

LibInit ==
  /\ FileIdle
  /\ CallsIdle
  /\ libCall \in LibRequests \cup FromRequests
  /\ composed = <<>>
  /\ pluginConfig = <<>>
  /\ engineCall = [kind |-> "none"]
  /\ libOutcome = [kind |-> "none"]
  /\ CliIdle

\* optimizeSVG(svgContent, options)
OptimizeSVG ==
  /\ libCall.fn = "optimizeSVG"
  /\ libOutcome.kind = "none"
  /\ \E eo \in EngineOutcomes :
       LET o == libCall.options IN
       /\ composed' = getPluginConfig(optAggressive(o), optPlugins(o))
       /\ pluginConfig' = finalPluginConfig(o)
       /\ engineCall' = [kind |-> eo.kind, svgContent |-> libCall.svgContent,
                         config |-> [multipass |-> optMultipass(o),
                                     plugins |-> finalPluginConfig(o)],
                         outcome |-> eo]
       /\ libOutcome' = optimizeSVGOutcome(eo, libCall.svgContent)
  /\ UNCHANGED <<libCall, cliVars, pf, mod>>

\* validateSVG(svgContent)
ValidateSVG ==
  /\ libCall.fn = "validateSVG"
  /\ libOutcome.kind = "none"
  /\ \E eo \in EngineOutcomes :
       /\ engineCall' = [kind |-> eo.kind, svgContent |-> libCall.svgContent,
                         config |-> [multipass |-> FALSE, plugins |-> <<>>],
                         outcome |-> eo]
       /\ libOutcome' = validateSVGOutcome(eo)
  /\ UNCHANGED <<libCall, composed, pluginConfig, cliVars, pf, mod>>

\* optimizeSVGFromFile, optimizeSVGFromBuffer, optimizeSVGFromURL and
\* optimizeSVGStream: obtain the markup, call optimizeSVG, return result.data
OptimizeSVGFrom ==
  /\ libCall.fn \in FromFunctions
  /\ libOutcome.kind = "none"
  /\ \E so \in SourceOutcomes(libCall) :
       IF so = "ok"
       THEN \E eo \in EngineOutcomes :
              LET o == libCall.options IN
              /\ composed' = getPluginConfig(optAggressive(o), optPlugins(o))
              /\ pluginConfig' = finalPluginConfig(o)
              /\ engineCall' = [kind |-> eo.kind, svgContent |-> libCall.svgContent,
                                config |-> [multipass |-> optMultipass(o),
                                            plugins |-> finalPluginConfig(o)],
                                outcome |-> eo]
              /\ libOutcome' = returnOfFrom(optimizeSVGOutcome(eo, libCall.svgContent))
       ELSE /\ libOutcome' = sourceError(libCall, so)
            /\ UNCHANGED <<composed, pluginConfig, engineCall>>
  /\ UNCHANGED <<libCall, cliVars, pf, mod>>

LibNext == OptimizeSVG \/ ValidateSVG \/ OptimizeSVGFrom

SpecLib == LibInit /\ [][LibNext]_vars

(***************************************************************************)
(* The batch command (src/bin/cli.js).  One action per resumption of the   *)
(* action callback or of a worker loop: JavaScript runs each of them to    *)
(* its next await without interleaving.                                    *)
(***************************************************************************)
CliInit ==
  /\ LibIdle
  /\ FileIdle
  /\ CallsIdle
  /\ options \in CliOptions
  /\ mainPc = "start"
  /\ files = <<>>
  /\ index = 0
  /\ wpc = [w \in Workers |-> "absent"]
  /\ wfile = [w \in Workers |-> -1]
  /\ claimed = <<>>
  /\ outcomes = <<>>
  /\ outDirExists = FALSE
  /\ disk = {}
  /\ exitCode = -1

\* the worker loops started by runConcurrent, in creation order: each runs
\* `while (index < files.length) { const file = files[index++]; ...` up to
\* its first await before the next one is created
RECURSIVE launchWorkers(_, _)
launchWorkers(n, fileList) ==
  IF n = 0
  THEN [index |-> 0, got |-> <<>>]
  ELSE LET prev == launchWorkers(n - 1, fileList)
       IN  IF loopContinues(prev.index, Len(fileList))
           THEN LET c == claimIndex(prev.index)
                IN  [index |-> c.next, got |-> Append(prev.got, c.file)]
           ELSE [index |-> prev.index, got |-> Append(prev.got, -1)]

\* processFile(undefined) fails at once inside its try block; a file of the
\* list suspends at the readFile of optimizeSVGFromFile
pcAfterClaim(fileIdx, fileList) ==
  IF fileIdx < Len(fileList) THEN "read1" ELSE "loop"

\* runConcurrent(): called by the action callback once pre-flight is over
StartWorkers(fileList) ==
  LET n == effectiveConcurrency(options)
      l == launchWorkers(n, fileList)
  IN  /\ index' = l.index
      /\ wpc' = [w \in Workers |->
                   IF w > n THEN "absent"
                   ELSE IF l.got[w] = -1 THEN "done"
                   ELSE pcAfterClaim(l.got[w], fileList)]
      /\ wfile' = [w \in Workers |-> IF w > n THEN -1 ELSE l.got[w]]
      /\ claimed' = SelectSeq(l.got, LAMBDA g : g # -1)
      /\ mainPc' = "running"

\* files = await fg(...): the callback resumes with the file list, then
\* either suspends in ensureDir or starts the workers
ResolveTo(fileList) ==
  /\ mainPc = "start"
  /\ files' = fileList
  /\ outcomes' = [i \in 1..Len(fileList) |-> [state |-> "none"]]
  /\ IF ensuresOutDir(options)
     THEN /\ mainPc' = "ensureDir"
          /\ UNCHANGED <<index, wpc, wfile, claimed>>
     ELSE StartWorkers(fileList)
  /\ UNCHANGED <<libVars, pf, mod, options, outDirExists, disk, exitCode>>

Resolve == \E fileList \in FileLists : ResolveTo(fileList)

\* await fs.ensureDir(options.out) resolves: the workers start
EnsureDirDone ==
  /\ mainPc = "ensureDir"
  /\ outDirExists' = TRUE
  /\ StartWorkers(files)
  /\ UNCHANGED <<libVars, pf, mod, options, files, outcomes, disk, exitCode>>

\* await fs.ensureDir(options.out) rejects: the callback rejects, nothing
\* handles the rejection and Node ends the process with status 1
EnsureDirFails ==
  /\ mainPc = "ensureDir"
  /\ mainPc' = "fatal"
  /\ exitCode' = 1
  /\ UNCHANGED <<libVars, pf, mod, options, files, index, wpc, wfile, claimed, outcomes,
                 outDirExists, disk>>

\* processFile settles for worker w with the given outcome; the worker loop
\* resumes from `await processFile(file)` in a later turn
Settle(w, oc) ==
  /\ outcomes' = [outcomes EXCEPT ![wfile[w] + 1] = oc]
  /\ wpc' = [wpc EXCEPT ![w] = "loop"]
  /\ UNCHANGED mainPc

\* an error thrown inside the try block of processFile at the given step
Throw(w, step) ==
  LET c == processFileCatch(step)
  IN  IF c.rejects
      THEN /\ wpc' = [wpc EXCEPT ![w] = "rejected"]
           /\ mainPc' = "rejected"
           /\ UNCHANGED outcomes
      ELSE Settle(w, c.outcome)

\* the readFile of optimizeSVGFromFile settles; on success the content is
\* gunzipped (.svgz), optimized and validated, and processFile suspends in
\* its own readFile
Read1Done(w) ==
  /\ mainPc = "running"
  /\ wpc[w] = "read1"
  /\ \/ /\ wpc' = [wpc EXCEPT ![w] = "read2"]
        /\ UNCHANGED <<outcomes, mainPc>>
     \/ Throw(w, "read")
     \/ /\ files[wfile[w] + 1].ext = "svgz"
        /\ Throw(w, "gunzip")
     \/ Throw(w, "optimize")
  /\ UNCHANGED <<libVars, pf, mod, options, files, index, wfile, claimed, outDirExists, disk,
                 exitCode>>

\* the readFile of processFile settles; on success the sizes are computed
\* and processFile either suspends in writeFile or logs and returns
Read2Done(w) ==
  /\ mainPc = "running"
  /\ wpc[w] = "read2"
  /\ \/ IF writesOutput(options)
        THEN /\ wpc' = [wpc EXCEPT ![w] = "write"]
             /\ UNCHANGED <<outcomes, mainPc>>
        ELSE Settle(w, [state |-> "success"])
     \/ Throw(w, "read")
  /\ UNCHANGED <<libVars, pf, mod, options, files, index, wfile, claimed, outDirExists, disk,
                 exitCode>>

\* fs.writeFile(path, ...) replaces what the path held
writeTo(d, path, from, kind) ==
  {e \in d : e.path # path} \cup {[path |-> path, from |-> from, kind |-> kind]}

\* writeFile settles; on success processFile either suspends in
\* exportPNGThumbnail or logs and returns
WriteDone(w) ==
  /\ mainPc = "running"
  /\ wpc[w] = "write"
  /\ \/ /\ disk' = writeTo(disk, outPathOf(options, files[wfile[w] + 1]), wfile[w], "svg")
        /\ IF exportsPng(options)
           THEN /\ wpc' = [wpc EXCEPT ![w] = "export"]
                /\ UNCHANGED <<outcomes, mainPc>>
           ELSE Settle(w, [state |-> "success"])
     \/ /\ Throw(w, "write")
        /\ UNCHANGED disk
  /\ UNCHANGED <<libVars, pf, mod, options, files, index, wfile, claimed, outDirExists,
                 exitCode>>

\* exportPNGThumbnail settles
ExportDone(w) ==
  /\ mainPc = "running"
  /\ wpc[w] = "export"
  /\ \/ /\ disk' = writeTo(disk, pngPathOf(outPathOf(options, files[wfile[w] + 1])),
                           wfile[w], "png")
        /\ Settle(w, [state |-> "success"])
     \/ /\ Throw(w, "export")
        /\ disk' = diskAfterExportFailure(disk, outPathOf(options, files[wfile[w] + 1]))
  /\ UNCHANGED <<libVars, pf, mod, options, files, index, wfile, claimed, outDirExists,
                 exitCode>>

\* the worker loop resumes after `await processFile(file)`: it claims the
\* next file or leaves the loop
Claim(w) ==
  /\ mainPc = "running"
  /\ wpc[w] = "loop"
  /\ IF loopContinues(index, Len(files))
     THEN LET c == claimIndex(index)
          IN  /\ index' = c.next
              /\ wfile' = [wfile EXCEPT ![w] = c.file]
              /\ claimed' = Append(claimed, c.file)
              /\ wpc' = [wpc EXCEPT ![w] = pcAfterClaim(c.file, files)]
     ELSE /\ wpc' = [wpc EXCEPT ![w] = "done"]
          /\ UNCHANGED <<index, wfile, claimed>>
  /\ UNCHANGED <<libVars, pf, mod, options, mainPc, files, outcomes, outDirExists, disk,
                 exitCode>>

\* await Promise.all(promises) resolves: every worker loop has returned, the
\* callback returns and the process exits; nothing sets process.exitCode
Finish ==
  /\ mainPc = "running"
  /\ \A w \in Workers : wpc[w] \in {"absent", "done"}
  /\ mainPc' = "finished"
  /\ exitCode' = exitCodeAtEnd(outcomes)
  /\ UNCHANGED <<libVars, pf, mod, options, files, index, wpc, wfile, claimed, outcomes,
                 outDirExists, disk>>

Next ==
  \/ Resolve
  \/ EnsureDirDone
  \/ EnsureDirFails
  \/ \E w \in Workers : Read1Done(w)
  \/ \E w \in Workers : Read2Done(w)
  \/ \E w \in Workers : WriteDone(w)
  \/ \E w \in Workers : ExportDone(w)
  \/ \E w \in Workers : Claim(w)
  \/ Finish

Spec == CliInit /\ [][Next]_vars

\* The event loop resumes every callback whose awaited operation has settled,
\* and every file-system, engine and encoder call settles.
\* The worker loops never look at what a path is, only at how many there
\* are: the scheduling is explored with one file list of every length.
PathOrder ==
  <<[dir |-> "a", stem |-> "x", ext |-> "svg"],
    [dir |-> "b", stem |-> "x", ext |-> "svg"],
    [dir |-> "a", stem |-> "y", ext |-> "svgz"],
    [dir |-> "b", stem |-> "z", ext |-> "svg"]>>

PoolFileLists ==
  {l \in FileLists : \A i \in 1..Len(l) : i <= Len(PathOrder) /\ l[i] = PathOrder[i]}

PoolResolve == \E fileList \in PoolFileLists : ResolveTo(fileList)

PoolNext ==
  \/ PoolResolve
  \/ EnsureDirDone
  \/ EnsureDirFails
  \/ \E w \in Workers : Read1Done(w)
  \/ \E w \in Workers : Read2Done(w)
  \/ \E w \in Workers : WriteDone(w)
  \/ \E w \in Workers : ExportDone(w)
  \/ \E w \in Workers : Claim(w)
  \/ Finish

FairSpec ==
  /\ CliInit
  /\ [][PoolNext]_vars
  /\ WF_vars(PoolResolve)
  /\ WF_vars(EnsureDirDone \/ EnsureDirFails)
  /\ \A w \in Workers :
       /\ WF_vars(Read1Done(w))
       /\ WF_vars(Read2Done(w))
       /\ WF_vars(WriteDone(w))
       /\ WF_vars(ExportDone(w))
       /\ WF_vars(Claim(w))
  /\ WF_vars(Finish)

(***************************************************************************)
(* One processFile call (src/bin/cli.js), with the sizes it measures and   *)
(* the percentage it reports.  A JavaScript number is a record: NaN,       *)
(* -Infinity, or a sign and a magnitude num/den; a JavaScript string is a  *)
(* sequence of characters.                                                 *)
(***************************************************************************)
Digits == <<"0", "1", "2", "3", "4", "5", "6", "7", "8", "9">>

digitChar(d) == Digits[d + 1]

digitValue(c) == CHOOSE d \in 0..9 : Digits[d + 1] = c

RECURSIVE decimal(_)
decimal(n) ==
  IF n < 10 THEN <<digitChar(n)>> ELSE decimal(n \div 10) \o <<digitChar(n % 10)>>

RECURSIVE digitsValue(_)
digitsValue(s) ==
  IF s = <<>>
  THEN 0
  ELSE 10 * digitsValue(SubSeq(s, 1, Len(s) - 1)) + digitValue(s[Len(s)])

RECURSIVE pow10(_)
pow10(k) == IF k = 0 THEN 1 ELSE 10 * pow10(k - 1)

\* ((originalSize - optimizedSize) / originalSize) * 100
percentOf(originalSize, optimizedSize) ==
  IF originalSize = 0
  THEN IF optimizedSize = 0 THEN [kind |-> "NaN"] ELSE [kind |-> "-Infinity"]
  ELSE [kind |-> "finite",
        neg |-> optimizedSize > originalSize,
        num |-> 100 * (IF optimizedSize > originalSize
                       THEN optimizedSize - originalSize
                       ELSE originalSize - optimizedSize),
        den |-> originalSize]

\* Number.prototype.toFixed(2): "-" for a negative number, then the integer n
\* for which n / 100 is closest to the magnitude (the larger n on a tie),
\* written with two digits after the point
toFixed2(x) ==
  CASE x.kind = "NaN" -> <<"N", "a", "N">>
    [] x.kind = "-Infinity" -> <<"-", "I", "n", "f", "i", "n", "i", "t", "y">>
    [] x.kind = "finite" ->
         LET n == (2 * 100 * x.num + x.den) \div (2 * x.den)
         IN  (IF x.neg THEN <<"-">> ELSE <<>>)
               \o decimal(n \div 100)
               \o <<".", digitChar((n \div 10) % 10), digitChar(n % 10)>>

\* ToNumber of a string, applied by > when the other operand is a number
toNumber(s) ==
  CASE s = <<"N", "a", "N">> -> [kind |-> "NaN"]
    [] s = <<"-", "I", "n", "f", "i", "n", "i", "t", "y">> -> [kind |-> "-Infinity"]
    [] OTHER ->
         LET neg == s # <<>> /\ s[1] = "-"
             body == IF neg THEN Tail(s) ELSE s
             points == {i \in 1..Len(body) : body[i] = "."}
             point == IF points = {} THEN Len(body) + 1 ELSE CHOOSE i \in points : TRUE
             whole == SubSeq(body, 1, point - 1)
             frac == SubSeq(body, point + 1, Len(body))
         IN  [kind |-> "finite", neg |-> neg,
              num |-> digitsValue(whole \o frac), den |-> pow10(Len(frac))]

\* x > k for a number x and a non-negative integer k; false for NaN
numberGreater(x, k) == x.kind = "finite" /\ ~x.neg /\ x.num > k * x.den

\* code units of the characters that occur in a formatted number
charCode(c) ==
  CASE c = "-" -> 45 [] c = "." -> 46
    [] c = "I" -> 73 [] c = "N" -> 78 [] c = "a" -> 97 [] c = "f" -> 102
    [] c = "i" -> 105 [] c = "n" -> 110 [] c = "t" -> 116 [] c = "y" -> 121
    [] OTHER -> 48 + digitValue(c)

\* a > b for two strings: by code unit, a proper prefix being the smaller
RECURSIVE stringGreater(_, _)
stringGreater(a, b) ==
  IF a = <<>> THEN FALSE
  ELSE IF b = <<>> THEN TRUE
  ELSE IF charCode(a[1]) # charCode(b[1]) THEN charCode(a[1]) > charCode(b[1])
  ELSE stringGreater(Tail(a), Tail(b))

\* percentReduced > 10: a string against a number, so the string is converted
exceedsTenLexical(percentReduced) == stringGreater(percentReduced, <<"1", "0">>)

exceedsTen(percentReduced) == numberGreater(toNumber(percentReduced), 10)

\* if (options.aggressive && percentReduced > 10) console.warn(...)
warnsAggressive(fileOptions, percentReduced) ==
  fileOptions.aggressive /\ exceedsTen(percentReduced)

\* byte lengths of the original and of the optimized markup
SizePairs ==
  { <<200, 181>>, <<200, 180>>, <<200, 179>>, <<200, 160>>, <<200, 0>>,
    <<200, 200>>, <<200, 250>>, <<200, 1000>>, <<3000, 2699>>,
    <<30000, 26999>>, <<30000, 26998>>, <<0, 0>> }

FileOptions ==
  [out : {"optimized"}, aggressive : BOOLEAN, dryRun : BOOLEAN, exportPng : BOOLEAN]

\* the names an input specification can resolve to: the directory pattern
\* **/*.{svg,svgz} gives the first two, a caller's own glob any of them
FilePaths ==
  { [dir |-> "a", stem |-> "x", ext |-> "svg"],
    [dir |-> "a", stem |-> "y", ext |-> "svgz"],
    [dir |-> "a", stem |-> "LOGO", ext |-> "SVG"],
    [dir |-> "a", stem |-> "icon", ext |-> "xml"],
    [dir |-> "a", stem |-> "drawing", ext |-> ""] }

\* the bytes of a file: text written as UTF-8, a gzip stream of a text, or an
\* encoded PNG image
utf8Bytes(text) == [enc |-> "utf8", text |-> text]

gzipBytes(text) == [enc |-> "gzip", text |-> text]

pngBytes(text) == [enc |-> "png", text |-> text]

\* zlib.gunzipSync(bytes).toString("utf-8"): throws on bytes that are not a
\* gzip stream
gunzipSync(bytes) ==
  IF bytes.enc = "gzip"
  THEN [kind |-> "return", value |-> bytes.text]
  ELSE [kind |-> "throw", message |-> "incorrect header check"]

\* bytes that are not text decode to characters that are no markup
garbled == [drawing |-> "garbled", passes |-> 0]

decodeUtf8(bytes) == IF bytes.enc = "utf8" THEN bytes.text ELSE garbled

\* a markup: the source drawing and the number of times it went through the
\* engine
sourceMarkup == [drawing |-> "d", passes |-> 0]

optimizeMarkup(text) == [text EXCEPT !.passes = @ + 1]

\* what an input file holds: a name ending in svgz holds a gzip stream, or
\* plain text when the file is misnamed
InputBytes(file) ==
  {utf8Bytes(sourceMarkup)}
    \cup (IF file.ext = "svgz" THEN {gzipBytes(sourceMarkup)} ELSE {})

\* fs.writeFile / sharp(...).toFile: the file at the path is replaced
fsWrite(fs, path, bytes) ==
  {e \in fs : e.path # path} \cup {[path |-> path, bytes |-> bytes]}

fsRead(fs, path) == (CHOOSE e \in fs : e.path = path).bytes

\* filePath.endsWith(".svgz") ? gunzipSync(await readFile(filePath))
\*                             : await readFile(filePath, "utf-8")
readContent(fs, file) ==
  IF file.ext = "svgz"
  THEN gunzipSync(fsRead(fs, file))
  ELSE [kind |-> "return", value |-> decodeUtf8(fsRead(fs, file))]

\* errors thrown by the environment: the file system, the engine, the encoder
EnvErrors ==
  {"readFile throws", "optimize throws", "writeFile throws", "toFile throws"}

FileInit ==
  /\ LibIdle
  /\ CliIdle
  /\ CallsIdle
  /\ \E o \in FileOptions, sz \in SizePairs, file \in FilePaths :
       \E bytes \in InputBytes(file) :
         pf = [pc |-> "optimize", options |-> o,
               originalSize |-> sz[1], optimizedSize |-> sz[2],
               percentReduced |-> <<>>, wrote |-> FALSE, logged |-> FALSE,
               warned |-> FALSE, outcome |-> "pending",
               run |-> 1, file |-> file, input |-> file,
               fs |-> {[path |-> file, bytes |-> bytes]},
               optimizedSVG |-> sourceMarkup, error |-> "none"]

\* catch (e) { console.error(...); return { file, success: false, error: e } }
fileFailed(f) == [f EXCEPT !.pc = "done", !.outcome = "failure"]

\* await optimizeSVGFromFile(file, {...}) settles; validateSVG only warns
FileOptimized ==
  /\ pf.pc = "optimize"
  /\ \E io \in {"ok", "readFile throws", "optimize throws"} :
       LET content == readContent(pf.fs, pf.file) IN
       pf' = IF io = "readFile throws" THEN [fileFailed(pf) EXCEPT !.error = io]
             ELSE IF content.kind = "throw"
             THEN [fileFailed(pf) EXCEPT !.error = content.message]
             ELSE IF content.value = garbled
             THEN [fileFailed(pf) EXCEPT !.error = "SVGO optimization failed"]
             ELSE IF io = "optimize throws" THEN [fileFailed(pf) EXCEPT !.error = io]
             ELSE [pf EXCEPT !.pc = "measure",
                             !.optimizedSVG = optimizeMarkup(content.value)]
  /\ UNCHANGED <<libVars, cliVars, mod>>

\* await fs.readFile(file, "utf-8") settles; the sizes are measured and the
\* percentage is formatted
FileMeasured ==
  /\ pf.pc = "measure"
  /\ \E ok \in BOOLEAN :
       pf' = IF ok
             THEN [pf EXCEPT
                     !.percentReduced =
                        toFixed2(percentOf(pf.originalSize, pf.optimizedSize)),
                     !.pc = IF writesOutput(pf.options) THEN "write" ELSE "report"]
             ELSE [fileFailed(pf) EXCEPT !.error = "readFile throws"]
  /\ UNCHANGED <<libVars, cliVars, mod>>

\* await fs.writeFile(outPath, optimizedSVG) settles: the string is written
\* as it is
FileWritten ==
  /\ pf.pc = "write"
  /\ \E ok \in BOOLEAN :
       pf' = IF ok
             THEN [pf EXCEPT !.wrote = TRUE,
                             !.fs = fsWrite(pf.fs, outPathOf(pf.options, pf.file),
                                            utf8Bytes(pf.optimizedSVG)),
                             !.pc = IF exportsPng(pf.options) THEN "export" ELSE "report"]
             ELSE [fileFailed(pf) EXCEPT !.error = "writeFile throws"]
  /\ UNCHANGED <<libVars, cliVars, mod>>

\* await exportPNGThumbnail(optimizedSVG, pngPath) settles
FileExported ==
  /\ pf.pc = "export"
  /\ \E ok \in BOOLEAN :
       pf' = IF ok
             THEN [pf EXCEPT !.fs = fsWrite(pf.fs,
                                            pngPathOf(outPathOf(pf.options, pf.file)),
                                            pngBytes(pf.optimizedSVG)),
                             !.pc = "report"]
             ELSE [fileFailed(pf) EXCEPT !.error = "toFile throws"]
  /\ UNCHANGED <<libVars, cliVars, mod>>

\* the success line, the aggressive-mode warning, return { file, success: true }
FileReported ==
  /\ pf.pc = "report"
  /\ pf' = [pf EXCEPT !.logged = TRUE,
                      !.warned = warnsAggressive(pf.options, pf.percentReduced),
                      !.outcome = "success",
                      !.pc = "done"]
  /\ UNCHANGED <<libVars, cliVars, mod>>

\* a second run of the command with the same options, its input the artifact
\* the first run wrote: the original bytes are those of the first output
FileRerun ==
  /\ pf.pc = "done"
  /\ pf.run = 1
  /\ pf.outcome = "success"
  /\ pf.wrote
  /\ \E size \in {pf.optimizedSize, pf.optimizedSize \div 2} :
       pf' = [pf EXCEPT !.run = 2,
                        !.file = outPathOf(pf.options, pf.file),
                        !.pc = "optimize",
                        !.originalSize = pf.optimizedSize,
                        !.optimizedSize = size,
                        !.percentReduced = <<>>,
                        !.wrote = FALSE, !.logged = FALSE, !.warned = FALSE,
                        !.outcome = "pending"]
  /\ UNCHANGED <<libVars, cliVars, mod>>

FileNext ==
  \/ FileOptimized
  \/ FileMeasured
  \/ FileWritten
  \/ FileExported
  \/ FileReported
  \/ FileRerun

SpecFile == FileInit /\ [][FileNext]_vars

(***************************************************************************)
(* A sequence of optimizeSVG calls in one process (src/lib/index.js): the  *)
(* module-level arrays safePlugins and aggressivePlugins and an array the  *)
(* caller keeps and passes as options.plugins are the objects that outlive *)
(* a call.                                                                 *)
(***************************************************************************)
CallToggles ==
  [aggressive : BOOLEAN, removeDimensions : BOOLEAN, preserveViewBox : BOOLEAN,
   passPlugins : BOOLEAN]

\* the options object of a call: the caller's array itself is options.plugins
callOptions(t, callerArray) ==
  [aggressive |-> t.aggressive, removeDimensions |-> t.removeDimensions,
   preserveViewBox |-> t.preserveViewBox]
    @@ (IF t.passPlugins THEN "plugins" :> callerArray ELSE <<>>)

\* const all = [...safePlugins]; if (aggressive) all.push(...aggressivePlugins);
\* return [...all.map(...), ...customPlugins]; the splice and the push of
\* optimizeSVG then act on the array returned.  Every array written is a copy.
optimizeSVGOnModuleAliased(m, o) ==
  LET all == IF optAggressive(o) THEN m.safe \o m.aggressive ELSE m.safe
      fresh == [i \in 1..Len(all) |-> toDescriptor(all[i])] \o optPlugins(o)
  IN  [m EXCEPT !.safe = all,
                !.last = pushViewBoxOff(
                           dropRemoveDimensions(fresh, optRemoveDimensions(o)),
                           optPreserveViewBox(o))]

optimizeSVGOnModule(m, o) ==
  LET all == IF optAggressive(o) THEN m.safe \o m.aggressive ELSE m.safe
      fresh == [i \in 1..Len(all) |-> toDescriptor(all[i])] \o optPlugins(o)
  IN  [m EXCEPT !.last = pushViewBoxOff(
                           dropRemoveDimensions(fresh, optRemoveDimensions(o)),
                           optPreserveViewBox(o))]

\* the arrays a caller keeps across its calls: empty or one descriptor
CallerArrays == {l \in CallerPluginLists : Len(l) <= 1}

CallsInit ==
  /\ LibIdle
  /\ CliIdle
  /\ FileIdle
  /\ \E callerArray \in CallerArrays :
       mod = [safe |-> safePlugins, aggressive |-> aggressivePlugins,
              callerPlugins |-> callerArray, passed |-> callerArray,
              count |-> 0, prevOptions |-> <<>>, lastOptions |-> <<>>,
              last |-> <<>>, lastKind |-> "none"]

\* one optimizeSVG call, returning or throwing
Call ==
  /\ mod.count < MaxCalls
  /\ \E t \in CallToggles, eo \in EngineOutcomes :
       LET o == callOptions(t, mod.callerPlugins) IN
       mod' = [optimizeSVGOnModule(mod, o) EXCEPT
                 !.count = @ + 1,
                 !.prevOptions = mod.lastOptions,
                 !.lastOptions = o,
                 !.lastKind = optimizeSVGOutcome(eo, "<svg><rect/></svg>").kind]
  /\ UNCHANGED <<libVars, cliVars, pf>>

CallsNext == Call

SpecCalls == CallsInit /\ [][CallsNext]_vars

(***************************************************************************)
(* Properties of the composer, the engine wrapper and the validator        *)
(* (checked under SpecLib).                                                *)
(***************************************************************************)
\* an optimizeSVG call has been served
Served == libCall.fn = "optimizeSVG" /\ libOutcome.kind # "none"

\* the caller-supplied list of the served call, and the toggles in force
callerPlugins == optPlugins(libCall.options)
viewBoxSlots == IF optPreserveViewBox(libCall.options) THEN 1 ELSE 0
droppedSlots == IF optRemoveDimensions(libCall.options) THEN 0 ELSE 1

\* number of tier descriptors the mode contributes
tierCount ==
  Len(safePlugins) + (IF optAggressive(libCall.options) THEN Len(aggressivePlugins) ELSE 0)

TierNames ==
  {toDescriptor(safePlugins[i]).name : i \in 1..Len(safePlugins)}
    \cup {toDescriptor(aggressivePlugins[i]).name : i \in 1..Len(aggressivePlugins)}

CountNamed(list, name) == Cardinality({i \in 1..Len(list) : list[i].name = name})

\* C3 (as stated): the caller-supplied descriptors are the last entries of the
\* final plugin list, after every built-in descriptor including the
\* removeViewBox-inactive one added by the preserveViewBox toggle.
C3_CallerDescriptorsLast ==
  Served =>
    LET n == Len(pluginConfig)
        k == Len(callerPlugins)
    IN  SubSeq(pluginConfig, n - k + 1, n) = callerPlugins

\* C3 (amended): the caller-supplied descriptors, in the order given, come
\* right after all safe-tier and aggressive-tier descriptors; they are the last
\* entries when preserveViewBox is disabled, and are followed by exactly the
\* removeViewBox-inactive descriptor when it is enabled.
C3_CallerDescriptorsAfterTiers ==
  Served =>
    LET n == Len(pluginConfig)
        k == Len(callerPlugins)
        b == tierCount - droppedSlots
    IN  /\ n = b + k + viewBoxSlots
        /\ SubSeq(pluginConfig, b + 1, b + k) = callerPlugins
        /\ viewBoxSlots = 1 => pluginConfig[n] = viewBoxOff

C3_Witness ==
  /\ Served
  /\ optPreserveViewBox(libCall.options)
  /\ Len(callerPlugins) = MaxPlugins
  /\ callerPlugins[MaxPlugins].name = "removeComments"
  /\ pluginConfig[Len(pluginConfig)] = viewBoxOff

\* C4: getPluginConfig returns the 23 safe-tier identifiers in catalog order,
\* each as a descriptor with only a name; in aggressive mode sortAttrs and then
\* removeAttrs with its params follow immediately; in safe mode a descriptor
\* of the aggressive tier is in the list only where the caller supplied it.
\* The final list keeps that prefix whenever removeDimensions is not disabled.
C4_TiersFirst ==
  Served =>
    LET aggressive == optAggressive(libCall.options)
    IN  /\ Len(safePlugins) = 23
        /\ composed[1] = [name |-> "cleanupAttrs"]
        /\ composed[23] = [name |-> "removeDimensions"]
        /\ \A i \in 1..23 : composed[i] = [name |-> safePlugins[i].str]
        /\ aggressive =>
             /\ composed[24] = [name |-> "sortAttrs"]
             /\ composed[25] = [name |-> "removeAttrs",
                                params |-> [attrs |-> "(class|data-name)"]]
        /\ ~aggressive =>
             /\ \A i \in 1..Len(composed) :
                  composed[i].name \in {"sortAttrs", "removeAttrs"} =>
                    /\ i - 23 \in 1..Len(callerPlugins)
                    /\ composed[i] = callerPlugins[i - 23]
             /\ \A i \in 1..Len(pluginConfig) :
                  pluginConfig[i].name \in {"sortAttrs", "removeAttrs"} =>
                    /\ i - (23 - droppedSlots) \in 1..Len(callerPlugins)
                    /\ pluginConfig[i] = callerPlugins[i - (23 - droppedSlots)]
        /\ optRemoveDimensions(libCall.options) =>
             SubSeq(pluginConfig, 1, tierCount) = SubSeq(composed, 1, tierCount)

C4_Witness ==
  /\ Served
  /\ ~optAggressive(libCall.options)
  /\ Len(callerPlugins) = MaxPlugins
  /\ callerPlugins[1].name = "sortAttrs"
  /\ Len(composed) = 23 + MaxPlugins

\* C5: with removeDimensions false exactly one entry leaves the list, the
\* first descriptor named removeDimensions, which is the built-in one at the
\* end of the safe tier and never a caller-supplied one; all other entries keep
\* their order.  With removeDimensions true the built-in descriptor is present.
C5_DropsBuiltInRemoveDimensions ==
  Served =>
    LET body == SubSeq(pluginConfig, 1, Len(pluginConfig) - viewBoxSlots)
        nSafe == Len(safePlugins)
    IN  IF ~optRemoveDimensions(libCall.options)
        THEN /\ composed[nSafe] = [name |-> "removeDimensions"]
             /\ \A i \in 1..(nSafe - 1) : composed[i].name # "removeDimensions"
             /\ body = SubSeq(composed, 1, nSafe - 1)
                         \o SubSeq(composed, nSafe + 1, Len(composed))
             /\ CountNamed(body, "removeDimensions")
                  = CountNamed(callerPlugins, "removeDimensions")
        ELSE /\ body = composed
             /\ pluginConfig[nSafe] = [name |-> "removeDimensions"]

C5_Witness ==
  /\ Served
  /\ ~optRemoveDimensions(libCall.options)
  /\ CountNamed(callerPlugins, "removeDimensions") = 1
  /\ CountNamed(pluginConfig, "removeDimensions") = 1
  /\ Len(pluginConfig) = Len(composed) - 1 + viewBoxSlots

\* C6: with preserveViewBox enabled (the default), in either mode and for
\* either value of the dimension toggle, {name: removeViewBox, active: false}
\* is appended as an entry of its own; with preserveViewBox disabled the
\* composer adds no removeViewBox descriptor.
C6_ViewBoxOffAppended ==
  Served =>
    LET n == Len(pluginConfig)
    IN  /\ n = Len(composed) - droppedSlots + viewBoxSlots
        /\ IF optPreserveViewBox(libCall.options)
           THEN /\ pluginConfig[n] = viewBoxOff
                /\ CountNamed(pluginConfig, "removeViewBox")
                     = CountNamed(callerPlugins, "removeViewBox") + 1
           ELSE CountNamed(pluginConfig, "removeViewBox")
                  = CountNamed(callerPlugins, "removeViewBox")
        /\ "preserveViewBox" \notin DOMAIN libCall.options =>
             pluginConfig[n] = viewBoxOff

C6_Witness ==
  /\ Served
  /\ "preserveViewBox" \notin DOMAIN libCall.options
  /\ optAggressive(libCall.options)
  /\ ~optRemoveDimensions(libCall.options)
  /\ CountNamed(callerPlugins, "removeViewBox") = 1
  /\ CountNamed(pluginConfig, "removeViewBox") = 2

\* C7: for a caller-supplied descriptor that repeats the name of a safe-tier
\* or aggressive-tier transformation, the last occurrence of that name in the
\* final list is the caller's (the last one the caller gave under that name).
LastNamed(list, name) ==
  CHOOSE i \in 0..Len(list) :
    /\ i # 0 => list[i].name = name
    /\ \A j \in (i + 1)..Len(list) : list[j].name # name

C7_CallerOverrideIsLastOccurrence ==
  Served =>
    \A j \in 1..Len(callerPlugins) :
      callerPlugins[j].name \in TierNames =>
        LET name == callerPlugins[j].name
            b == Len(pluginConfig) - viewBoxSlots - Len(callerPlugins)
            last == LastNamed(pluginConfig, name)
        IN  /\ last > b
            /\ last - b = LastNamed(callerPlugins, name)
            /\ pluginConfig[last] = callerPlugins[last - b]

C7_Witness ==
  /\ Served
  /\ Len(callerPlugins) >= 1
  /\ callerPlugins[1] = [name |-> "removeComments", active |-> FALSE]
  /\ pluginConfig[LastNamed(pluginConfig, "removeComments")].active = FALSE
  /\ pluginConfig[4] = [name |-> "removeComments"]

\* C8: a throw of the engine call inside optimizeSVG surfaces as one thrown
\* Error whose message is "SVGO optimization failed: " followed by the cause's
\* message, and then no markup is returned; otherwise the engine's result for
\* the whole composed list is returned unchanged.
C8_EngineFailureWrapped ==
  Served =>
    /\ engineCall.svgContent = libCall.svgContent
    /\ engineCall.config.plugins = pluginConfig
    /\ IF engineCall.outcome.kind = "throw"
       THEN /\ libOutcome.kind = "throw"
            /\ libOutcome.message
                 = "SVGO optimization failed: " \o engineCall.outcome.message
            /\ "value" \notin DOMAIN libOutcome
       ELSE /\ libOutcome.kind = "return"
            /\ libOutcome.value = engineCall.outcome.result

C8_Witness ==
  /\ Served
  /\ engineCall.outcome.kind = "throw"
  /\ libCall.svgContent = "<svg><rect"
  /\ libOutcome.message = "SVGO optimization failed: Unclosed root tag"

\* C9: validateSVG never throws and returns a boolean: true exactly when the
\* single-pass engine run with an empty plugin list did not throw.
C9_ValidateTotal ==
  (libCall.fn = "validateSVG" /\ engineCall.kind # "none") =>
    /\ libOutcome.kind = "return"
    /\ libOutcome.value \in BOOLEAN
    /\ libOutcome.value <=> (engineCall.outcome.kind = "return")
    /\ engineCall.config = [multipass |-> FALSE, plugins |-> <<>>]
    /\ engineCall.svgContent = libCall.svgContent

C9_Witness ==
  /\ libCall.fn = "validateSVG"
  /\ engineCall.kind = "throw"
  /\ libOutcome = [kind |-> "return", value |-> FALSE]

(***************************************************************************)
(* Properties of the batch command (checked under Spec).                   *)
(***************************************************************************)
\* how many times a position of the file list was passed to processFile
TimesClaimed(pos) == Cardinality({k \in 1..Len(claimed) : claimed[k] = pos})

\* the workers currently inside processFile
Busy == {w \in Workers : wpc[w] \in {"read1", "read2", "write", "export"}}

\* C1: under every interleaving of the worker loops, each position of the file
\* list is claimed by exactly one worker: no file is passed to processFile
\* twice and, once the pool has finished, none has been skipped.
C1_EachFileClaimedOnce ==
  /\ \A k \in 1..Len(claimed) : claimed[k] \in 0..(Len(files) - 1)
  /\ \A pos \in 0..(Len(files) - 1) : TimesClaimed(pos) <= 1
  /\ \A v, w \in Busy : wfile[v] = wfile[w] => v = w
  /\ mainPc = "finished" => \A pos \in 0..(Len(files) - 1) : TimesClaimed(pos) = 1

C1_Witness ==
  /\ mainPc = "finished"
  /\ Len(files) = MaxFiles
  /\ effectiveConcurrency(options) = MaxWorkers
  /\ \A w \in Workers : wfile[w] # -1
  /\ wfile[1] < wfile[2]
  /\ Len(claimed) = MaxFiles

\* C2: a failure while processing one file is caught inside processFile and
\* becomes a failure outcome; it never rejects a worker loop, so when the pool
\* finishes every file has been attempted exactly once, has an outcome, and
\* the output of every file that succeeded is on disk.
C2_FailureIsolated ==
  /\ mainPc # "rejected"
  /\ \A w \in Workers : wpc[w] # "rejected"
  /\ mainPc = "finished" =>
       \A i \in 1..Len(files) :
         /\ TimesClaimed(i - 1) = 1
         /\ outcomes[i].state \in {"success", "failure"}
         /\ (outcomes[i].state = "success" /\ ~options.dryRun) =>
              \E e \in disk : e.path = outPathOf(options, files[i]) /\ e.kind = "svg"

C2_Witness ==
  /\ mainPc = "finished"
  /\ ~options.dryRun
  /\ Len(files) = 3
  /\ outcomes[1].state = "success"
  /\ outcomes[2] = [state |-> "failure", step |-> "optimize"]
  /\ outcomes[3].state = "success"
  /\ \E e \in disk : e.from = 0 /\ e.kind = "svg"
  /\ \E e \in disk : e.from = 2 /\ e.kind = "svg"

\* C10: in dry-run mode the batch performs no write: the output directory is
\* not created, no optimized SVG is written and no PNG is exported, whatever
\* the number of files and the other options (--export-png included).
C10_DryRunWritesNothing ==
  options.dryRun =>
    /\ disk = {}
    /\ ~outDirExists
    /\ mainPc # "ensureDir"
    /\ \A w \in Workers : wpc[w] \notin {"write", "export"}

C10_Witness ==
  /\ options.dryRun
  /\ options.exportPng
  /\ mainPc = "finished"
  /\ Len(files) = MaxFiles
  /\ \A i \in 1..Len(files) : outcomes[i].state = "success"

\* the positions of the file list whose processFile call has settled
Settled == {i \in 1..Len(files) : outcomes[i].state \in {"success", "failure"}}

\* C11: when the PNG export of a file fails, the optimized SVG of that file has
\* already been written and stays on disk: only the PNG of that file is
\* missing, the file is recorded as failed and the batch goes on to settle
\* every other file.
C11_ExportFailureKeepsSvg ==
  /\ \A i \in 1..Len(files) :
       outcomes[i] = [state |-> "failure", step |-> "export"] =>
         /\ \E e \in disk : e.path = outPathOf(options, files[i]) /\ e.kind = "svg"
         /\ \A e \in disk : e.kind = "png" => e.from # i - 1
  /\ mainPc = "finished" => Settled = 1..Len(files)

C11_Witness ==
  /\ mainPc = "finished"
  /\ Len(files) = 3
  /\ outcomes[1] = [state |-> "failure", step |-> "export"]
  /\ outcomes[2].state = "success"
  /\ outcomes[3].state = "success"
  /\ \E e \in disk : e.from = 0 /\ e.kind = "svg"
  /\ \E e \in disk : e.from = 2 /\ e.kind = "png"

\* C12: pre-flight errors are fatal and precede all processing: when the output
\* directory cannot be created, or when the input specification resolves to no
\* files, the run ends with an error and processFile is never called; so a run
\* that starts its workers or ends normally has at least one file.
C12_PreflightErrorsFatal ==
  /\ mainPc = "fatal" => claimed = <<>> /\ exitCode # 0
  /\ mainPc \in {"running", "finished"} => Len(files) > 0

\* C13: once the batch has finished, the exit status tells whether any file
\* failed: it is 0 exactly when every processFile outcome is a success.
C13_ExitStatusReflectsFailures ==
  mainPc = "finished" =>
    (exitCode = 0 <=> \A i \in 1..Len(files) : outcomes[i].state = "success")

\* C16: the effective pool size is an integer >= 1 whatever --concurrency is
\* (0, negative and NaN give 1), exactly that many worker loops are started,
\* and at no moment are more files being processed than the pool size, also
\* when the pool is larger than the file list.
C16_PoolSizeBounds ==
  /\ effectiveConcurrency(options) \in Nat \ {0}
  /\ (options.concurrency.isNaN \/ options.concurrency.n <= 0) =>
       effectiveConcurrency(options) = 1
  /\ mainPc \in {"running", "finished"} =>
       /\ {w \in Workers : wpc[w] # "absent"} = 1..effectiveConcurrency(options)
       /\ Cardinality(Busy) <= effectiveConcurrency(options)
       /\ Cardinality(Busy) <= Len(files)

C16_Witness ==
  /\ mainPc = "running"
  /\ effectiveConcurrency(options) = MaxWorkers
  /\ Len(files) = 1
  /\ Cardinality(Busy) = 1
  /\ \E w \in Workers : wpc[w] = "done"

\* C17: provided every I/O and optimization step eventually settles, the batch
\* terminates: the shared index only grows and never exceeds the length of the
\* file list, and runConcurrent resolves only after every worker loop has
\* returned and every file's processing has settled.
C17_BatchTerminates ==
  /\ [](index <= Len(files))
  /\ [][index' >= index]_vars
  /\ [](mainPc = "finished" =>
          /\ \A w \in Workers : wpc[w] \in {"absent", "done"}
          /\ index = Len(files)
          /\ Settled = 1..Len(files))
  /\ <>(mainPc \in {"finished", "fatal"})

C17_Witness ==
  /\ mainPc = "finished"
  /\ Len(files) = MaxFiles
  /\ index = MaxFiles
  /\ \E i \in 1..Len(files) : outcomes[i].state = "failure"
  /\ \E i \in 1..Len(files) : outcomes[i].state = "success"

\* C20: within one run no two distinct input files are written to the same
\* output path: every input that succeeded ends the run with its own optimized
\* artifact on disk, also when inputs of different directories share a
\* basename.
C20_OutputsDistinct ==
  (mainPc = "finished" /\ ~options.dryRun) =>
    \A i \in 1..Len(files) :
      outcomes[i].state = "success" =>
        \E e \in disk : e.from = i - 1 /\ e.kind = "svg"

\* C15: optimizeSVGFromFile, optimizeSVGFromBuffer, optimizeSVGFromURL and
\* optimizeSVGStream return an optimized-SVG result object, the shape
\* optimizeSVG returns: reading .data on their return value yields the markup
\* the engine produced.
C15_FromFunctionsReturnResultObject ==
  (libCall.fn \in FromFunctions /\ libOutcome.kind = "return") =>
    readData(libOutcome.value)
      = [defined |-> TRUE, value |-> engineCall.outcome.result.data]

\* C18: the aggressive-mode warning is emitted for a file exactly when
\* aggressive mode is on, the file succeeded, and the reduction percentage
\* rounded to two decimals is numerically greater than 10, that is at least
\* 10.005 before rounding; a 9.50% reduction does not warn, a 100.00% one
\* does, and no warning is emitted in safe mode or before the file succeeded.
C18_WarningIsNumeric ==
  /\ pf.warned <=>
       /\ pf.options.aggressive
       /\ pf.outcome = "success"
       /\ pf.originalSize > 0
       /\ 20000 * (pf.originalSize - pf.optimizedSize) >= 2001 * pf.originalSize
  /\ pf.outcome = "success" => pf.pc = "done" /\ pf.logged

C18_Witness ==
  /\ pf.pc = "done"
  /\ pf.options.aggressive
  /\ pf.outcome = "success"
  /\ pf.percentReduced = <<"9", ".", "5", "0">>
  /\ ~pf.warned

\* C19: after any sequence of optimizeSVG calls the module-level safePlugins
\* and aggressivePlugins lists and the caller's plugins array are what they
\* were, and the list composed for a call is the one its own options give,
\* whatever the calls before it toggled.
C19_NoStateAcrossCalls ==
  /\ mod.safe = safePlugins
  /\ mod.aggressive = aggressivePlugins
  /\ mod.callerPlugins = mod.passed
  /\ mod.count > 0 => mod.last = finalPluginConfig(mod.lastOptions)

C19_Witness ==
  /\ mod.count = MaxCalls
  /\ optAggressive(mod.prevOptions)
  /\ ~optRemoveDimensions(mod.prevOptions)
  /\ "plugins" \in DOMAIN mod.prevOptions
  /\ Len(mod.passed) > 0
  /\ ~optAggressive(mod.lastOptions)
  /\ optRemoveDimensions(mod.lastOptions)
  /\ "plugins" \in DOMAIN mod.lastOptions
  /\ mod.last = finalPluginConfig(mod.lastOptions)

\* C21: with PNG export on, the thumbnail path of a file differs from the
\* path of its optimized SVG, so after a successful export the optimized
\* markup is still what the SVG output path holds, for every name the input
\* can resolve to, also one that does not end in .svg or .svgz.
C21_PngNeverOverwritesSvg ==
  (pf.pc = "done" /\ pf.outcome = "success" /\ pf.wrote /\ pf.options.exportPng) =>
    /\ pngPathOf(outPathOf(pf.options, pf.file)) # outPathOf(pf.options, pf.file)
    /\ \E e \in pf.fs :
         /\ e.path = outPathOf(pf.options, pf.file)
         /\ e.bytes = utf8Bytes(pf.optimizedSVG)

\* C22: the artifact written for an input named *.svgz is a gzip stream like
\* its input: a second run over it, when the file system and the engine raise
\* no error, reads it with optimizeSVGFromFile and obtains the markup that
\* optimizing the first run's output gives.
C22_SvgzArtifactReadable ==
  (pf.run = 2 /\ pf.input.ext = "svgz" /\ pf.pc # "optimize"
     /\ pf.error \notin EnvErrors) =>
    /\ pf.error = "none"
    /\ pf.optimizedSVG = optimizeMarkup(optimizeMarkup(sourceMarkup))

====
